---- MODULE Spec2Model ----
(***************************************************************************)
(* Brightly OS: the status-transition and priority-ordering engine.        *)
(*                                                                         *)
(* The store is the `items` table behind src/lib/items.js; the cache is    *)
(* the `items` state of the useItems hook.  Every hook call (changeStatus, *)
(* reorder through ItemBoard.handleReorder, add, update, reload) is a      *)
(* process that advances one store request at a time; every store request  *)
(* may fail.  Spec runs the calls one after the other, SpecConc lets two   *)
(* calls be in flight together.                                            *)
(***************************************************************************)
EXTENDS Integers, Sequences, FiniteSets, TLC

\* ------------------------------------------------------------------ bounds
\* Size of the id space: ids 1..MaxItems-1 exist initially, one is free for add.
MaxItems == 4
\* Number of hook calls started in one behaviour.
MaxCalls == 2

Ids == 1..MaxItems
NoId == 0
Procs == {1, 2}
Zones == {1}
NoZone == 0

\* src/lib/items.js STATUSES
WAITING == "waiting"
IN_PROGRESS == "in_progress"
CURRENT == "current"
DONE == "done"
STATUSES == {WAITING, IN_PROGRESS, CURRENT, DONE}
\* The target statuses changeStatus is called with: the four, and one that is
\* none of them.
Targets == STATUSES \cup {"archived"}

VARIABLES
    store,   \* the items table: id -> row (ex = the row exists)
    cache,   \* useItems `items`: a sequence of item objects
    error,   \* useItems `error`: "none" or the operation whose message it holds
    pc,      \* per call slot: the store request the call waits for
    loc,     \* per call slot: the call's arguments, locals and returned result
    pre,     \* per call slot: store and cache as they were when the call started
    calls,   \* number of hook calls started so far (also the client's clock)
    zones    \* the zones table: the ids of its rows

vars == <<store, cache, error, pc, loc, pre, calls, zones>>

\* ----------------------------------------------------------------- helpers
Min(S) == CHOOSE x \in S : \A y \in S : x <= y
Max(S) == CHOOSE x \in S : \A y \in S : x >= y

NoRow == [ex |-> FALSE, status |-> WAITING, po |-> 0, cat |-> 0, zone |-> NoZone,
          ctx |-> ""]

Live(s) == {i \in Ids : s[i].ex}
WithStatus(s, st) == {i \in Live(s) : s[i].status = st}
NumCurrent(s) == Cardinality(WithStatus(s, CURRENT))

\* The cache object of a stored row.
Obj(s, i) == [id |-> i, status |-> s[i].status, po |-> s[i].po,
              cat |-> s[i].cat, zone |-> s[i].zone, ctx |-> s[i].ctx]

CacheIds(c) == {c[k].id : k \in DOMAIN c}
CacheWithStatus(c, st) == {k \in DOMAIN c : c[k].status = st}

\* The client's clock at the time of call number n (0 is "no timestamp").
Now(n) == n + 1

\* All sequences without repetition over the set S of cache objects that are
\* ascending in priority_order (rows of equal priority_order in any order).
RECURSIVE OrderedBy(_)
OrderedBy(S) ==
    IF S = {} THEN {<<>>}
    ELSE UNION {{<<x>> \o t : t \in OrderedBy(S \ {x})} :
                    x \in {y \in S : \A z \in S : y.po <= z.po}}

\* Mutant of FetchItems: the done rows are not left out.
FetchItems_WithDone(s) == OrderedBy({Obj(s, i) : i \in Live(s)})

\* fetchItems({includeDone: false, zoneId: null}): one of the orderings the
\* query may return.
FetchItems(s) == OrderedBy({Obj(s, i) : i \in {j \in Live(s) : s[j].status # DONE}})

\* ------------------------------------------------- data layer: set current
\* .eq('status', 'current').maybeSingle(): an error when several rows match.
FindCurrent(s) ==
    LET rows == WithStatus(s, CURRENT)
    IN  IF Cardinality(rows) > 1 THEN [err |-> TRUE, id |-> NoId]
        ELSE IF rows = {} THEN [err |-> FALSE, id |-> NoId]
        ELSE [err |-> FALSE, id |-> CHOOSE i \in rows : TRUE]

\* Mutants of NeedsDemotion: the comparison of the ids inverted; the
\* comparison of the ids left out.
NeedsDemotion_Inverted(prev, id) == prev # NoId /\ prev = id

NeedsDemotion_Any(prev, id) == prev # NoId

\* if (previousCurrent && previousCurrent.id !== id)
NeedsDemotion(prev, id) == prev # NoId /\ prev # id

\* Mutant of AfterFind: the promotion write is issued straight away.
AfterFind_PromoteFirst(prev, id) == "sc_promote"

\* The request that follows the lookup: the demotion branch comes first, the
\* promotion write only after it.
AfterFind(prev, id) == IF NeedsDemotion(prev, id) THEN "sc_top" ELSE "sc_promote"

\* .eq('status','in_progress').order('priority_order').limit(1).maybeSingle()
TopInProgress(s) ==
    LET rows == WithStatus(s, IN_PROGRESS)
    IN  IF rows = {} THEN [found |-> FALSE, po |-> 0]
        ELSE [found |-> TRUE, po |-> Min({s[i].po : i \in rows})]

\* Mutant of NewPriorityOrder: placed after the top item, not before it.
NewPriorityOrder_After(topItem) == IF topItem.found THEN topItem.po + 1 ELSE 1

\* const newPriorityOrder = topItem ? topItem.priority_order - 1 : 1
NewPriorityOrder(topItem) == IF topItem.found THEN topItem.po - 1 ELSE 1

\* Mutant of DemoteWrite: the in_progress items are renumbered to make room.
DemoteWrite_Renumber(s, prev, newpo) ==
    [i \in Ids |->
        IF i = prev /\ s[i].ex THEN [s[i] EXCEPT !.status = IN_PROGRESS, !.po = 1]
        ELSE IF s[i].ex /\ s[i].status = IN_PROGRESS THEN [s[i] EXCEPT !.po = @ + 1]
        ELSE s[i]]

\* update({status: 'in_progress', priority_order}).eq('id', previousCurrent.id)
DemoteWrite(s, prev, newpo) ==
    IF s[prev].ex THEN [s EXCEPT ![prev].status = IN_PROGRESS, ![prev].po = newpo]
    ELSE s

\* Mutant of StatusWrite: the item is also moved to the end of the order.
StatusWrite_ToEnd(s, id, st, now) ==
    [s EXCEPT ![id].status = st,
              ![id].cat = IF st = DONE THEN now ELSE @,
              ![id].po = 1 + Max({s[i].po : i \in Live(s)})]

\* update({status}).eq('id', id).select().single(); completed_at only for done
StatusWrite(s, id, st, now) ==
    IF st = DONE THEN [s EXCEPT ![id].status = st, ![id].cat = now]
    ELSE [s EXCEPT ![id].status = st]

\* Mutant of InvalidStatus: the check of the target status left out.
InvalidStatus_Never(newStatus) == FALSE

\* if (!Object.values(STATUSES).includes(newStatus))
InvalidStatus(newStatus) == newStatus \notin STATUSES

\* updateItemStatus: the function the target status is handed to.
Dispatch(newStatus) ==
    IF InvalidStatus(newStatus) THEN "us_invalid"
    ELSE IF newStatus = CURRENT THEN "sc_find"
    ELSE "st_write"

\* ---------------------------------------------------- hook: changeStatus
\* The first cached item that is current (Array.prototype.find), 0 if none.
CacheFindCurrent(c) ==
    LET ks == CacheWithStatus(c, CURRENT)
    IN  IF ks = {} THEN 0 ELSE Min(ks)

\* minOrder of the optimistic demotion (the code subtracts 1 from it).
CacheMinOrder(c) ==
    LET ks == CacheWithStatus(c, IN_PROGRESS)
    IN  IF ks # {} THEN Min({c[k].po : k \in ks}) ELSE 1

\* The setItems(prev => ...) updater of changeStatus.
OptimisticStatus(c, id, newStatus, now) ==
    LET k0 == CacheFindCurrent(c)
        demote == newStatus = CURRENT /\ k0 # 0 /\ c[k0].id # id
        updated == IF demote
                   THEN [k \in DOMAIN c |->
                            IF c[k].id = c[k0].id
                            THEN [c[k] EXCEPT !.status = IN_PROGRESS,
                                              !.po = CacheMinOrder(c) - 1]
                            ELSE c[k]]
                   ELSE c
    IN  [k \in DOMAIN updated |->
            IF updated[k].id = id
            THEN [updated[k] EXCEPT !.status = newStatus,
                                    !.cat = IF newStatus = DONE THEN now ELSE @]
            ELSE updated[k]]

\* ------------------------------------------------- board: handleReorder
\* App filteredItems: the zone filter (an empty selection shows every item).
FilteredItems(c, sel) ==
    LET Shown(x) == sel = {} \/ x.zone \in sel
    IN  SelectSeq(c, Shown)

\* Array.prototype.sort((a, b) => a.priority_order - b.priority_order): stable.
RECURSIVE SortByOrder(_)
SortByOrder(q) ==
    IF q = <<>> THEN <<>>
    ELSE LET m == Min({q[k].po : k \in DOMAIN q})
             k0 == Min({k \in DOMAIN q : q[k].po = m})
         IN  <<q[k0]>> \o SortByOrder(SubSeq(q, 1, k0 - 1) \o SubSeq(q, k0 + 1, Len(q)))

\* Mutant of FindIndex: the index of the item after the target.
FindIndex_After(q, id) ==
    LET ks == {k \in DOMAIN q : q[k].id = id}
    IN  IF ks = {} THEN -1 ELSE Min(ks)

\* Array.prototype.findIndex: the 0-based index of the item, -1 when absent.
FindIndex(q, id) ==
    LET ks == {k \in DOMAIN q : q[k].id = id}
    IN  IF ks = {} THEN -1 ELSE Min(ks) - 1

\* Array.prototype.splice(start, 0, x): a negative start counts from the end.
Splice(q, start, x) ==
    LET n == Len(q)
        at == IF start < 0 THEN (IF n + start < 0 THEN 0 ELSE n + start)
              ELSE IF start > n THEN n ELSE start
    IN  SubSeq(q, 1, at) \o <<x>> \o SubSeq(q, at + 1, n)

\* Mutant of BoardItems: the status filter left out.
BoardItems_All(items, status) == SortByOrder(items)

\* The items of the board `status`, sorted (boardItems).
BoardItems(items, status) ==
    LET OnBoard(x) == x.status = status
    IN  SortByOrder(SelectSeq(items, OnBoard))

\* handleReorder(draggedItem, targetItemId, status): the newOrder it hands on.
HandleReorder(items, dragged, targetItemId, status) ==
    LET NotDragged(x) == x.id # dragged.id
        withoutDragged == SelectSeq(BoardItems(items, status), NotDragged)
    IN  Splice(withoutDragged, FindIndex(withoutDragged, targetItemId), dragged)

\* -------------------------------------------------------- hook: reorder
\* Mutant of Renumber: the 0-based index taken as the priority_order.
Renumber_ZeroBased(newOrder) ==
    [k \in DOMAIN newOrder |-> [newOrder[k] EXCEPT !.po = k - 1]]

\* newOrder.map((item, index) => ({...item, priority_order: index + 1}))
Renumber(newOrder) == [k \in DOMAIN newOrder |-> [newOrder[k] EXCEPT !.po = k]]

\* updatedItems.map(item => ({id, priority_order}))
OrderUpdates(updatedItems) ==
    [k \in DOMAIN updatedItems |->
        [id |-> updatedItems[k].id, po |-> updatedItems[k].po]]

\* setItems(updatedItems)
ReorderCache(c, updatedItems) == updatedItems

\* reorderItems: one update per entry; the entries in `won` succeed.  An
\* update of an id that has no row changes nothing and is no error.
ReorderWrites(s, ups, won) ==
    [i \in Ids |->
        LET ks == {k \in won : ups[k].id = i}
        IN  IF ks # {} /\ s[i].ex THEN [s[i] EXCEPT !.po = ups[Max(ks)].po] ELSE s[i]]

\* errors.length > 0
ReorderError(ups, won) == won # DOMAIN ups

\* Mutant of FirstError: the last error of the list is returned.
FirstError_Last(ups, won) ==
    IF ReorderError(ups, won) THEN Max(DOMAIN ups \ won) ELSE 0

\* errors[0].error, errors being the results with an error in input order:
\* the position of the update whose error reorderItems returns, 0 if none.
FirstError(ups, won) ==
    IF ReorderError(ups, won) THEN Min(DOMAIN ups \ won) ELSE 0

\* ------------------------------------------------- data layer: createItem
CONTEXTS == {"objectives", "research", "needs", "reminders"}

\* The drafts add() is called with ("" is a missing title or context).
Drafts ==
    {[title |-> "t", context |-> "objectives", zone |-> NoZone],
     [title |-> "t", context |-> "needs", zone |-> 1],
     [title |-> "", context |-> "objectives", zone |-> NoZone],
     [title |-> "t", context |-> "", zone |-> NoZone],
     [title |-> "t", context |-> "chores", zone |-> NoZone]}

\* Mutant of CreateRejects: only the title is looked at.
CreateRejects_TitleOnly(item) == item.title = ""

\* !item.title || !item.context, then !Object.values(CONTEXTS).includes(context)
CreateRejects(item) ==
    item.title = "" \/ item.context = "" \/ item.context \notin CONTEXTS

\* .order('priority_order', {ascending: false}).limit(1).maybeSingle()
MaxOrderItem(s) ==
    IF Live(s) = {} THEN [found |-> FALSE, po |-> 0]
    ELSE [found |-> TRUE, po |-> Max({s[i].po : i \in Live(s)})]

\* (maxItem?.priority_order ?? 0) + 1
NextOrder(maxItem) == (IF maxItem.found THEN maxItem.po ELSE 0) + 1

\* insert(newItem): the row gets the next free id.
InsertWrite(s, id, item, nextOrder) ==
    [s EXCEPT ![id] = [ex |-> TRUE, status |-> WAITING, po |-> nextOrder,
                       cat |-> 0, zone |-> item.zone, ctx |-> item.context]]

\* ------------------------------------------------- data layer: updateItem
SafeFields == {"title", "notes", "zone_id", "due_date"}

\* Mutant of SafeUpdates: every key of the updates object is kept.
SafeUpdates_All(patch) == patch.keys

\* for (const field of safeFields) if (updates[field] !== undefined) ...
SafeUpdates(patch) == patch.keys \cap SafeFields

\* The patches update() is called with: the details panel edits one field.
Patch(keys, z) == [keys |-> keys, zone |-> z, status |-> CURRENT, po |-> 1,
                   ctx |-> "needs", cat |-> 0]

Patches == {Patch({"zone_id"}, z) : z \in Zones \cup {NoZone}}

\* The updates objects update() and updateItem accept: any keys.
AnyPatches ==
    Patches \cup
    {Patch({}, NoZone), Patch({"context"}, NoZone),
     Patch({"status", "priority_order"}, NoZone),
     Patch({"zone_id", "context"}, 1),
     Patch({"zone_id", "status", "priority_order", "context", "completed_at"}, NoZone)}

\* Object.keys(safeUpdates).length === 0
UpdateRejects(patch) == SafeUpdates(patch) = {}

\* update(safeUpdates).eq('id', id)
UpdateWrite(s, id, patch) ==
    LET Has(key) == key \in SafeUpdates(patch)
    IN  [s EXCEPT ![id].zone = IF Has("zone_id") THEN patch.zone ELSE @,
                  ![id].status = IF Has("status") THEN patch.status ELSE @,
                  ![id].po = IF Has("priority_order") THEN patch.po ELSE @,
                  ![id].ctx = IF Has("context") THEN patch.ctx ELSE @,
                  ![id].cat = IF Has("completed_at") THEN patch.cat ELSE @]

\* Mutant of OptimisticUpdate: the cache is left as it is until the response.
OptimisticUpdate_None(c, id, patch) == c

\* prev.map(item => item.id === id ? {...item, ...updates} : item)
OptimisticUpdate(c, id, patch) ==
    LET Has(key) == key \in patch.keys
    IN  [k \in DOMAIN c |->
            IF c[k].id = id
            THEN [c[k] EXCEPT !.zone = IF Has("zone_id") THEN patch.zone ELSE @,
                              !.status = IF Has("status") THEN patch.status ELSE @,
                              !.po = IF Has("priority_order") THEN patch.po ELSE @,
                              !.ctx = IF Has("context") THEN patch.ctx ELSE @,
                              !.cat = IF Has("completed_at") THEN patch.cat ELSE @]
            ELSE c[k]]

\* ------------------------------------------------- data layer: deleteZone
\* update({zone_id: null}).eq('zone_id', id)
ClearZone(s, z) ==
    [i \in Ids |-> IF s[i].ex /\ s[i].zone = z THEN [s[i] EXCEPT !.zone = NoZone]
                   ELSE s[i]]

\* Mutant of ClearAborts: the error of the clearing is not looked at.
ClearAborts_Never(clearError) == FALSE

\* if (clearError) return {success: false, error: clearError}
ClearAborts(clearError) == clearError

\* ---------------------------------------------- control flow of the calls
\* if (findError) return {error: findError, previousCurrentId: null}
FindAborts(findError) == findError

\* Mutant of DemoteAborts: the demotion error is not looked at.
DemoteAborts_Never(demoteError) == FALSE

\* if (demoteError) return {data: null, error: demoteError, previousCurrentId: null}
DemoteAborts(demoteError) == demoteError

\* Mutant of PreviousCurrentId: the id is reported whatever the demotion
\* write returned.
PreviousCurrentId_Early(demoteError, prev) == prev

\* previousCurrentId after the demotion branch: null in the early return,
\* previousCurrent.id once the demotion write has succeeded.
PreviousCurrentId(demoteError, prev) == IF demoteError THEN NoId ELSE prev

\* The error of update(...).eq('id', id).select().single(): the request
\* failed, or no row has the id.
SingleError(ok, exists) == ~ok \/ ~exists

\* Mutant of RevertsOn: the hook does not reload after an error.
RevertsOn_Never(err) == FALSE

\* The hook's `if (updateError) {...; await load()}`.
RevertsOn(err) == err

\* --------------------------------------------------------- call bookkeeping
NoLoc == [op |-> "none", id |-> NoId, st |-> WAITING, bucket |-> {},
          \* the number of the call, and the number of the last call issued
          \* when its reload read the store
          issued |-> 0, readAt |-> 0,
          \* the card a drag was dropped on; the zone deleteZone is called with
          target |-> NoId, zoneId |-> NoZone,
          \* reorderItems: the updates that failed, the one whose error is returned
          failed |-> {}, errOf |-> 0,
          \* reorder: the ids of the board as shown before the drop, in order
          board |-> <<>>,
          \* the lookup of the top / largest priority_order returned an error
          lookupFailed |-> FALSE,
          \* deleteZone: the clearing was applied, the zone row was deleted
          cleared |-> FALSE, deleted |-> FALSE,
          prev |-> NoId, newpo |-> 0, previousCurrentId |-> NoId,
          ups |-> <<>>, snap |-> <<>>, draft |-> 0, nextOrder |-> 0,
          \* what the call returned
          err |-> FALSE, prevId |-> NoId, reload |-> "none",
          \* what happened in the store during the call
          clean |-> TRUE, demotedRow |-> NoId, promotedRow |-> NoId,
          demoteFailed |-> FALSE]

NoPre == [store |-> <<>>, cache |-> <<>>, zones |-> {}]

\* At most `par` calls are in flight; a new call takes the lowest free slot.
MayStart(p, par) ==
    /\ pc[p] = "idle"
    /\ calls < MaxCalls
    /\ Cardinality({q \in Procs : pc[q] # "idle"}) < par
    /\ \A q \in Procs : q < p => pc[q] # "idle"

Begin(p, l) ==
    /\ calls' = calls + 1
    /\ loc' = [loc EXCEPT ![p] = [l EXCEPT !.issued = calls + 1]]
    /\ pre' = [pre EXCEPT ![p] = [store |-> store, cache |-> cache,
                                   zones |-> zones]]

\* The data layer returned {error: err, previousCurrentId: prevId} to the hook
\* call of slot p, whose locals are l: on an error the hook does
\* setError(message) and load(), which starts with setError(null).
Settle(p, l, err, prevId) ==
    LET r == [l EXCEPT !.err = err, !.prevId = prevId]
    IN  IF RevertsOn(err)
        THEN /\ loc' = [loc EXCEPT ![p] = r]
             /\ pc' = [pc EXCEPT ![p] = "load_fetch"]
             /\ error' = "none"
        ELSE /\ loc' = [loc EXCEPT ![p] = r]
             /\ pc' = [pc EXCEPT ![p] = "done"]
             /\ error' = error

\* The call's promise resolves: its caller goes on, its locals are gone.
Resolve(p) ==
    /\ pc[p] = "done"
    /\ pc' = [pc EXCEPT ![p] = "idle"]
    /\ loc' = [loc EXCEPT ![p] = NoLoc]
    /\ pre' = [pre EXCEPT ![p] = NoPre]
    /\ UNCHANGED <<store, cache, error, calls, zones>>

\* ------------------------------------------------------ actions: changeStatus
\* changeStatus(id, newStatus): optimistic update, then updateItemStatus.
ChangeStatus(p, par) ==
    /\ MayStart(p, par)
    /\ \E id \in Ids, st \in Targets :
        /\ cache' = OptimisticStatus(cache, id, st, Now(calls + 1))
        /\ Begin(p, [NoLoc EXCEPT !.op = "changeStatus", !.id = id, !.st = st])
        /\ pc' = [pc EXCEPT ![p] = Dispatch(st)]
    /\ UNCHANGED <<store, error, zones>>

\* updateItemStatus returns the "Invalid status" error without a store request.
UsInvalid(p) ==
    /\ pc[p] = "us_invalid"
    /\ Settle(p, loc[p], TRUE, NoId)
    /\ UNCHANGED <<store, cache, pre, calls, zones>>

\* setItemCurrent: the lookup of the current item.
ScFind(p) ==
    /\ pc[p] = "sc_find"
    /\ \E ok \in BOOLEAN :
        LET found == FindCurrent(store)
            l == [loc[p] EXCEPT !.prev = IF ok THEN found.id ELSE NoId,
                                !.clean = @ /\ ok]
        IN  IF FindAborts(~ok \/ found.err)
            THEN Settle(p, l, TRUE, NoId)
            ELSE /\ loc' = [loc EXCEPT ![p] = l]
                 /\ pc' = [pc EXCEPT ![p] = AfterFind(l.prev, l.id)]
                 /\ error' = error
    /\ UNCHANGED <<store, cache, pre, calls, zones>>

\* setItemCurrent: the lookup of the top in_progress item; its error is not read.
ScTop(p) ==
    /\ pc[p] = "sc_top"
    /\ \E ok \in BOOLEAN :
        LET topItem == IF ok THEN TopInProgress(store) ELSE [found |-> FALSE, po |-> 0]
        IN  loc' = [loc EXCEPT ![p].newpo = NewPriorityOrder(topItem),
                               ![p].lookupFailed = ~ok,
                               ![p].clean = @ /\ ok]
    /\ pc' = [pc EXCEPT ![p] = "sc_demote"]
    /\ UNCHANGED <<store, cache, error, pre, calls, zones>>

\* setItemCurrent: the demotion write.
ScDemote(p) ==
    /\ pc[p] = "sc_demote"
    /\ \E ok \in BOOLEAN :
        LET l == [loc[p] EXCEPT !.clean = @ /\ ok,
                                !.demotedRow = IF ok THEN loc[p].prev ELSE NoId,
                                !.demoteFailed = ~ok]
        IN  /\ store' = IF ok THEN DemoteWrite(store, l.prev, l.newpo) ELSE store
            /\ IF DemoteAborts(~ok)
               THEN Settle(p, l, TRUE, PreviousCurrentId(TRUE, l.prev))
               ELSE /\ loc' = [loc EXCEPT ![p] =
                                [l EXCEPT !.previousCurrentId =
                                              PreviousCurrentId(FALSE, l.prev)]]
                    /\ pc' = [pc EXCEPT ![p] = "sc_promote"]
                    /\ error' = error
    /\ UNCHANGED <<cache, pre, calls, zones>>

\* setItemCurrent: the promotion write and the return of its result.
ScPromote(p) ==
    /\ pc[p] = "sc_promote"
    /\ \E ok \in BOOLEAN :
        LET hit == ok /\ store[loc[p].id].ex
            l == [loc[p] EXCEPT !.clean = @ /\ ok,
                                !.promotedRow = IF hit THEN loc[p].id ELSE NoId]
        IN  /\ store' = IF hit THEN StatusWrite(store, l.id, CURRENT, Now(calls))
                        ELSE store
            /\ Settle(p, l, SingleError(ok, store[l.id].ex), l.previousCurrentId)
    /\ UNCHANGED <<cache, pre, calls, zones>>

\* setItemWaiting / setItemInProgress / setItemDone.
StWrite(p) ==
    /\ pc[p] = "st_write"
    /\ \E ok \in BOOLEAN :
        LET hit == ok /\ store[loc[p].id].ex
            l == [loc[p] EXCEPT !.clean = @ /\ ok]
        IN  /\ store' = IF hit THEN StatusWrite(store, l.id, l.st, Now(calls))
                        ELSE store
            /\ Settle(p, l, SingleError(ok, store[l.id].ex), NoId)
    /\ UNCHANGED <<cache, pre, calls, zones>>

\* The ids of the board `status` in the order shown.
BoardIds(items, status) ==
    LET b == BoardItems(items, status) IN [k \in DOMAIN b |-> b[k].id]

\* ----------------------------------------------------------- actions: reorder
\* A drag of a card onto another card of the same board, under a zone filter:
\* handleCardDrop -> handleReorder -> reorder(newOrder), up to the requests.
DragReorder(p, par) ==
    /\ MayStart(p, par)
    /\ \E sel \in SUBSET Zones :
        LET items == FilteredItems(cache, sel)
        IN  \E kd \in DOMAIN items, kt \in DOMAIN items :
                /\ items[kd].status \in {WAITING, IN_PROGRESS}
                /\ items[kd].id # items[kt].id
                /\ items[kd].status = items[kt].status
                /\ LET newOrder == HandleReorder(items, items[kd], items[kt].id,
                                                 items[kt].status)
                       updatedItems == Renumber(newOrder)
                   IN  /\ cache' = ReorderCache(cache, updatedItems)
                       /\ Begin(p, [NoLoc EXCEPT !.op = "reorder",
                                                 !.id = items[kd].id,
                                                 !.target = items[kt].id,
                                                 !.st = items[kd].status,
                                                 !.bucket = CacheIds(newOrder),
                                                 !.board = BoardIds(items, items[kd].status),
                                                 !.ups = OrderUpdates(updatedItems)])
    /\ pc' = [pc EXCEPT ![p] = "ro_write"]
    /\ UNCHANGED <<store, error, zones>>

\* reorderItems: the updates run, each succeeds or fails; Promise.all.
RoWrite(p) ==
    /\ pc[p] = "ro_write"
    /\ \E won \in SUBSET DOMAIN loc[p].ups :
        LET l == [loc[p] EXCEPT !.clean = (won = DOMAIN loc[p].ups),
                                !.failed = DOMAIN loc[p].ups \ won,
                                !.errOf = FirstError(loc[p].ups, won)]
        IN  /\ store' = ReorderWrites(store, l.ups, won)
            /\ Settle(p, l, ReorderError(l.ups, won), NoId)
    /\ UNCHANGED <<cache, pre, calls, zones>>

\* --------------------------------------------------------------- actions: add
\* add(itemData): createItem validates, then looks up the largest priority_order.
Add(p, par) ==
    /\ MayStart(p, par)
    /\ Ids \ Live(store) # {}
    /\ \E item \in Drafts :
        LET l == [NoLoc EXCEPT !.op = "add", !.draft = item]
        IN  /\ IF CreateRejects(item)
               THEN /\ Begin(p, [l EXCEPT !.err = TRUE])
                    /\ pc' = [pc EXCEPT ![p] = "done"]
                    /\ error' = "create"
               ELSE /\ Begin(p, l)
                    /\ pc' = [pc EXCEPT ![p] = "cr_max"]
                    /\ error' = error
    /\ UNCHANGED <<store, cache, zones>>

\* createItem: the lookup of the largest priority_order; its error is not read.
CrMax(p) ==
    /\ pc[p] = "cr_max"
    /\ \E ok \in BOOLEAN :
        LET maxItem == IF ok THEN MaxOrderItem(store) ELSE [found |-> FALSE, po |-> 0]
        IN  loc' = [loc EXCEPT ![p].nextOrder = NextOrder(maxItem),
                               ![p].lookupFailed = ~ok,
                               ![p].clean = @ /\ ok]
    /\ pc' = [pc EXCEPT ![p] = "cr_insert"]
    /\ UNCHANGED <<store, cache, error, pre, calls, zones>>

\* createItem: the insert; on success add() appends the new row to the cache.
CrInsert(p) ==
    /\ pc[p] = "cr_insert"
    /\ Ids \ Live(store) # {}
    /\ \E ok \in BOOLEAN :
        LET id == Min(Ids \ Live(store))
            l == [loc[p] EXCEPT !.clean = @ /\ ok, !.err = ~ok,
                                !.id = IF ok THEN id ELSE NoId]
        IN  /\ store' = IF ok THEN InsertWrite(store, id, l.draft, l.nextOrder)
                        ELSE store
            /\ cache' = IF ok THEN Append(cache, Obj(store', id)) ELSE cache
            /\ error' = IF ok THEN error ELSE "create"
            /\ loc' = [loc EXCEPT ![p] = l]
    /\ pc' = [pc EXCEPT ![p] = "done"]
    /\ UNCHANGED <<pre, calls, zones>>

\* ------------------------------------------------------------ actions: update
\* update(id, updates): optimistic update, then updateItem.
Update(p, par) ==
    /\ MayStart(p, par)
    /\ \E id \in Ids, patch \in Patches :
        LET l == [NoLoc EXCEPT !.op = "update", !.id = id, !.draft = patch]
        IN  /\ cache' = OptimisticUpdate(cache, id, patch)
            /\ Begin(p, l)
    /\ pc' = [pc EXCEPT ![p] = "up_write"]
    /\ UNCHANGED <<store, error, zones>>

\* updateItem: the write (none when the patch holds no safe field).
UpWrite(p) ==
    /\ pc[p] = "up_write"
    /\ \E ok \in BOOLEAN :
        LET rejected == UpdateRejects(loc[p].draft)
            hit == ~rejected /\ ok /\ store[loc[p].id].ex
            l == [loc[p] EXCEPT !.clean = @ /\ (ok \/ rejected)]
        IN  /\ store' = IF hit THEN UpdateWrite(store, l.id, l.draft) ELSE store
            /\ Settle(p, l, rejected \/ SingleError(ok, store[l.id].ex), NoId)
    /\ UNCHANGED <<cache, pre, calls, zones>>

\* update(id, updates) with any updates object.
UpdateAny(p, par) ==
    /\ MayStart(p, par)
    /\ \E id \in Ids, patch \in AnyPatches :
        LET l == [NoLoc EXCEPT !.op = "update", !.id = id, !.draft = patch]
        IN  /\ cache' = OptimisticUpdate(cache, id, patch)
            /\ Begin(p, l)
    /\ pc' = [pc EXCEPT ![p] = "up_write"]
    /\ UNCHANGED <<store, error, zones>>

\* A drag dropped on the board area: handleDrop -> handleReorder with the
\* dragOverItemId of an earlier dragover, whose item may have left the board.
DropReorder(p, par) ==
    /\ MayStart(p, par)
    /\ \E sel \in SUBSET Zones :
        LET items == FilteredItems(cache, sel)
        IN  \E kd \in DOMAIN items, dragOverItemId \in Ids :
                /\ items[kd].status \in {WAITING, IN_PROGRESS}
                /\ items[kd].id # dragOverItemId
                /\ LET newOrder == HandleReorder(items, items[kd], dragOverItemId,
                                                 items[kd].status)
                       updatedItems == Renumber(newOrder)
                   IN  /\ cache' = ReorderCache(cache, updatedItems)
                       /\ Begin(p, [NoLoc EXCEPT !.op = "reorder",
                                                 !.id = items[kd].id,
                                                 !.target = dragOverItemId,
                                                 !.st = items[kd].status,
                                                 !.bucket = CacheIds(newOrder),
                                                 !.board = BoardIds(items, items[kd].status),
                                                 !.ups = OrderUpdates(updatedItems)])
    /\ pc' = [pc EXCEPT ![p] = "ro_write"]
    /\ UNCHANGED <<store, error, zones>>

\* -------------------------------------------------------- actions: deleteZone
\* useZones.remove(zoneId) -> deleteZone(id).
DeleteZone(p, par) ==
    /\ MayStart(p, par)
    /\ \E z \in Zones :
        Begin(p, [NoLoc EXCEPT !.op = "deleteZone", !.zoneId = z])
    /\ pc' = [pc EXCEPT ![p] = "dz_clear"]
    /\ UNCHANGED <<store, cache, error, zones>>

\* deleteZone: the update that clears zone_id on the items of the zone.
DzClear(p) ==
    /\ pc[p] = "dz_clear"
    /\ \E ok \in BOOLEAN :
        /\ store' = IF ok THEN ClearZone(store, loc[p].zoneId) ELSE store
        /\ loc' = [loc EXCEPT ![p].clean = ok, ![p].cleared = ok,
                               ![p].err = ClearAborts(~ok)]
        /\ pc' = [pc EXCEPT ![p] = IF ClearAborts(~ok) THEN "done" ELSE "dz_delete"]
    /\ UNCHANGED <<cache, error, pre, calls, zones>>

\* deleteZone: the delete of the zone row; {success: !error, error}.
DzDelete(p) ==
    /\ pc[p] = "dz_delete"
    /\ \E ok \in BOOLEAN :
        /\ zones' = IF ok THEN zones \ {loc[p].zoneId} ELSE zones
        /\ loc' = [loc EXCEPT ![p].clean = @ /\ ok, ![p].deleted = ok,
                               ![p].err = ~ok]
    /\ pc' = [pc EXCEPT ![p] = "done"]
    /\ UNCHANGED <<store, cache, error, pre, calls>>

\* -------------------------------------------------------------- actions: load
\* reload(): load() called by the user of the hook.
Reload(p, par) ==
    /\ MayStart(p, par)
    /\ Begin(p, [NoLoc EXCEPT !.op = "reload"])
    /\ pc' = [pc EXCEPT ![p] = "load_fetch"]
    /\ error' = "none"
    /\ UNCHANGED <<store, cache, zones>>

\* load(): the fetchItems request reads the store; on its error the hook does
\* setError(message) and setItems([]).
LoadFetch(p) ==
    /\ pc[p] = "load_fetch"
    /\ \E ok \in BOOLEAN :
        IF ok
        THEN \E data \in FetchItems(store) :
                /\ loc' = [loc EXCEPT ![p].snap = data, ![p].readAt = calls]
                /\ pc' = [pc EXCEPT ![p] = "load_apply"]
                /\ UNCHANGED <<cache, error>>
        ELSE /\ cache' = <<>>
             /\ error' = "fetch"
             /\ loc' = [loc EXCEPT ![p].reload = "failed"]
             /\ pc' = [pc EXCEPT ![p] = "done"]
    /\ UNCHANGED <<store, pre, calls, zones>>

\* load(): the response arrives, setItems(data).
LoadApply(p) ==
    /\ pc[p] = "load_apply"
    /\ cache' = loc[p].snap
    /\ loc' = [loc EXCEPT ![p].reload = "ok", ![p].snap = <<>>]
    /\ pc' = [pc EXCEPT ![p] = "done"]
    /\ UNCHANGED <<store, error, pre, calls, zones>>

\* ---------------------------------------------------------------- initial
\* MaxItems-1 items created in a row (priority_order 1, 2, ...), then moved to
\* arbitrary statuses with at most one current; the hook has loaded them.
InitStores ==
    {s \in {[i \in Ids |->
                IF i < MaxItems
                THEN [ex |-> TRUE, status |-> f[i], po |-> i,
                      cat |-> IF f[i] = DONE THEN 1 ELSE 0,
                      zone |-> IF i = 1 THEN 1 ELSE NoZone,
                      ctx |-> "objectives"]
                ELSE NoRow] : f \in [1..(MaxItems - 1) -> STATUSES]} :
        NumCurrent(s) <= 1}

Init ==
    /\ store \in InitStores
    /\ cache \in FetchItems(store)
    /\ error = "none"
    /\ pc = [p \in Procs |-> "idle"]
    /\ loc = [p \in Procs |-> NoLoc]
    /\ pre = [p \in Procs |-> NoPre]
    /\ calls = 0
    /\ zones = Zones

\* One call at a time: slot 1 runs every call to its end.
Next ==
    \/ ChangeStatus(1, 1)
    \/ DragReorder(1, 1)
    \/ Add(1, 1)
    \/ Update(1, 1)
    \/ Reload(1, 1)
    \/ UsInvalid(1)
    \/ ScFind(1)
    \/ ScTop(1)
    \/ ScDemote(1)
    \/ ScPromote(1)
    \/ StWrite(1)
    \/ RoWrite(1)
    \/ CrMax(1)
    \/ CrInsert(1)
    \/ UpWrite(1)
    \/ LoadFetch(1)
    \/ LoadApply(1)
    \/ Resolve(1)

Spec == Init /\ [][Next]_vars

\* Two status changes (and the reloads they trigger) may be in flight: their
\* store requests interleave in any order.
NextConc ==
    \E p \in Procs :
        \/ ChangeStatus(p, 2)
        \/ Reload(p, 2)
        \/ UsInvalid(p)
        \/ ScFind(p)
        \/ ScTop(p)
        \/ ScDemote(p)
        \/ ScPromote(p)
        \/ StWrite(p)
        \/ LoadFetch(p)
        \/ LoadApply(p)
        \/ Resolve(p)

SpecConc == Init /\ [][NextConc]_vars

\* The calls the hooks and the data layer accept beyond those of the item
\* board and the details panel, one at a time: an update with any keys, a
\* drop whose target card is stale, the deletion of a zone.
NextApi ==
    \/ UpdateAny(1, 1)
    \/ DropReorder(1, 1)
    \/ DeleteZone(1, 1)
    \/ UpWrite(1)
    \/ RoWrite(1)
    \/ DzClear(1)
    \/ DzDelete(1)
    \/ LoadFetch(1)
    \/ LoadApply(1)
    \/ Resolve(1)

SpecApi == Init /\ [][NextApi]_vars

\* The stores two interleaved set-current calls leave when no item was
\* current: both lookups found nothing, both promotions were written.
RacedStores ==
    LET Promoted(s) == {StatusWrite(StatusWrite(s, b, CURRENT, 0), c, CURRENT, 0) :
                            b \in Live(s), c \in Live(s)}
        raced == UNION {Promoted(s) : s \in {r \in InitStores : NumCurrent(r) = 0}}
    IN  {r \in raced : NumCurrent(r) = 2}

\* The hook has loaded a store that a race left with two current items.
InitRaced ==
    /\ store \in RacedStores
    /\ cache \in FetchItems(store)
    /\ error = "none"
    /\ pc = [p \in Procs |-> "idle"]
    /\ loc = [p \in Procs |-> NoLoc]
    /\ pre = [p \in Procs |-> NoPre]
    /\ calls = 0
    /\ zones = Zones

\* Status changes, one at a time.
NextRaced ==
    \/ ChangeStatus(1, 1)
    \/ UsInvalid(1)
    \/ ScFind(1)
    \/ ScTop(1)
    \/ ScDemote(1)
    \/ ScPromote(1)
    \/ StWrite(1)
    \/ LoadFetch(1)
    \/ LoadApply(1)
    \/ Resolve(1)

SpecRaced == InitRaced /\ [][NextRaced]_vars

\* ===================================================================== claims
\* The call of slot 1 (the only slot of Spec), and the store and the cache as
\* they were when it started.
Call == loc[1]
Old == pre[1].store
OldCache == pre[1].cache
Returned == pc[1] = "done"
SetCurrentCall == Call.op = "changeStatus" /\ Call.st = CURRENT

\* C1: with the calls run one after the other and every store request free to
\* fail, the store holds at most one current item after each call.
C1_OneCurrentAfterEachCall == Returned => NumCurrent(store) <= 1

\* C1 witness: the second call of a run promoted an item and demoted the
\* previous current one.
C1_Witness ==
    /\ Returned /\ SetCurrentCall /\ calls = 2
    /\ ~Call.err /\ Call.demotedRow # NoId /\ Call.promotedRow = Call.id
    /\ NumCurrent(store) = 1

\* C2: at most one stored item is current in every reachable state, also when
\* the store requests of two set-current calls interleave.
C2_OneCurrentUnderInterleaving == NumCurrent(store) <= 1

\* C3: promoting B while another item A is current, every store request
\* succeeding, leaves A in_progress, B current and A.priority_order equal to
\* the minimum in_progress priority_order before the call minus 1 (1 when no
\* item was in_progress), which is below every other in_progress item.
C3_DemotedToTopOfInProgress ==
    LET A == FindCurrent(Old).id
        B == Call.id
        ips == WithStatus(Old, IN_PROGRESS)
    IN  (Returned /\ SetCurrentCall /\ Call.clean /\ ~Call.err
            /\ A # NoId /\ A # B)
        => /\ store[A].status = IN_PROGRESS
           /\ store[B].status = CURRENT
           /\ store[A].po = (IF ips = {} THEN 1
                             ELSE Min({Old[i].po : i \in ips}) - 1)
           /\ \A j \in WithStatus(store, IN_PROGRESS) \ {A} :
                store[A].po < store[j].po

\* C3 witness: A current, two items in_progress, one of them promoted.
C3_Witness ==
    /\ Returned /\ SetCurrentCall /\ Call.clean /\ ~Call.err
    /\ FindCurrent(Old).id \notin {NoId, Call.id}
    /\ Call.id \in WithStatus(Old, IN_PROGRESS)
    /\ Cardinality(WithStatus(Old, IN_PROGRESS)) >= 2

\* C4: when the demotion write fails, the promotion write is never issued, the
\* call returns an error, the target's stored status is what it was before
\* the call and the store holds at most one current item.
C4_FailedDemotionAborts ==
    (SetCurrentCall /\ Call.demoteFailed)
    => /\ pc[1] # "sc_promote"
       /\ Call.promotedRow = NoId
       /\ Call.err
       /\ Call.prevId = NoId
       /\ store[Call.id].status = Old[Call.id].status
       /\ NumCurrent(store) <= 1

\* C4 witness: a set-current call whose demotion write failed has returned.
C4_Witness ==
    /\ Returned /\ SetCurrentCall /\ Call.demoteFailed
    /\ Old[Call.id].ex /\ NumCurrent(store) = 1

\* C5: when the demotion write succeeded and the promotion write failed, the
\* call reports an error together with the demoted item's id, the hook
\* reloads, and after a successful reload the cache is the store's state:
\* the previous current item in_progress and no current item.
C5_PartialFailureReportedAndReloaded ==
    (Returned /\ SetCurrentCall /\ Call.demotedRow # NoId /\ Call.promotedRow = NoId)
    => /\ Call.err
       /\ Call.prevId = Call.demotedRow
       /\ Call.reload # "none"
       /\ Call.reload = "ok" =>
            /\ cache \in FetchItems(store)
            /\ store[Call.demotedRow].status = IN_PROGRESS
            /\ NumCurrent(store) = 0
            /\ CacheWithStatus(cache, CURRENT) = {}

\* C5 witness: demotion applied, promotion failed, the reload succeeded.
C5_Witness ==
    /\ Returned /\ SetCurrentCall
    /\ Call.demotedRow # NoId /\ Call.promotedRow = NoId
    /\ Call.reload = "ok" /\ Len(cache) >= 2

\* C6: in a set-current call that has to demote, the target is never current
\* in the store while the previous current item is not yet demoted.
C6_DemotionBeforePromotion ==
    (SetCurrentCall /\ NeedsDemotion(Call.prev, Call.id)
        /\ store[Call.id].ex /\ store[Call.id].status = CURRENT)
    => /\ Call.demotedRow = Call.prev
       /\ store[Call.prev].status = IN_PROGRESS

\* C6 witness: the promotion write of a demoting set-current call was applied.
C6_Witness ==
    /\ SetCurrentCall /\ NeedsDemotion(Call.prev, Call.id)
    /\ Call.promotedRow = Call.id /\ store[Call.id].status = CURRENT

\* C7: setting to current the item that is already current demotes nothing
\* and changes no stored status, priority_order or completed_at, whatever
\* fails; when no request fails it succeeds with previousCurrentId null, and
\* the cache is unchanged as long as no reload replaced it.
C7_SetCurrentOnCurrentIsNoOp ==
    (SetCurrentCall /\ Old[Call.id].ex /\ Old[Call.id].status = CURRENT)
    => /\ store = Old
       /\ Call.demotedRow = NoId
       /\ Call.prevId = NoId
       /\ (Returned /\ Call.clean) => (~Call.err /\ Call.reload = "none")
       /\ Call.reload = "none" /\ pc[1] # "load_apply" => cache = OldCache

\* C7 witness: such a call has returned without error, the item being cached.
C7_Witness ==
    /\ Returned /\ SetCurrentCall /\ ~Call.err
    /\ Old[Call.id].ex /\ Old[Call.id].status = CURRENT
    /\ Call.id \in CacheIds(cache)
    /\ Cardinality(WithStatus(store, IN_PROGRESS)) >= 1

\* The cache holds the optimistic update of the reorder call (no reload yet).
ReorderShown == Call.op = "reorder" /\ Call.reload = "none" /\ pc[1] # "load_apply"

\* C8: a reorder gives every item of the reordered board a priority_order
\* equal to its 1-based position in the new sequence: the values are exactly
\* 1..N in the new order, in the cache and in the updates sent to the store.
C8_DenseRenumbering ==
    ReorderShown
    => LET N == Cardinality(Call.bucket)
           board == BoardItems(cache, Call.st)
       IN  /\ Len(board) = N /\ Len(Call.ups) = N
           /\ {board[k].id : k \in 1..N} = Call.bucket
           /\ \A k \in 1..N :
                /\ board[k].po = k
                /\ Call.ups[k] = [id |-> board[k].id, po |-> k]

\* C8 witness: in a board of three items the last one was dragged to the top.
C8_Witness ==
    /\ ReorderShown /\ pc[1] = "ro_write"
    /\ Cardinality(Call.bucket) = 3
    /\ cache[1].id = Call.id
    /\ BoardItems(OldCache, Call.st)[3].id = Call.id

\* C9: a reorder of one board writes only rows of that board: every row of
\* another status, and every row outside the reordered items, is stored as
\* before, whether the reorder succeeds or fails part-way.
C9_ReorderWritesOnlyItsBucket ==
    Call.op = "reorder"
    => /\ \A i \in Call.bucket : Old[i].ex /\ Old[i].status = Call.st
       /\ \A i \in Ids : (i \notin Call.bucket \/ Old[i].status # Call.st)
                            => store[i] = Old[i]
       /\ \A i \in Ids : store[i].status = Old[i].status

\* C9 witness: a reorder failed part-way (a write applied, another refused)
\* while another board holds an item.
C9_Witness ==
    /\ Returned /\ Call.op = "reorder" /\ Call.err
    /\ store # Old
    /\ \E i \in Live(Old) : Old[i].status \notin {Call.st, DONE}

\* C10: a reorder leaves the cached items of the other boards, and those the
\* filter hides, in the cache with their status and priority_order.
C10_ReorderKeepsOtherCachedItems ==
    ReorderShown
    => \A k \in DOMAIN OldCache :
            OldCache[k].id \notin Call.bucket
            => \E j \in DOMAIN cache :
                    /\ cache[j].id = OldCache[k].id
                    /\ cache[j].status = OldCache[k].status
                    /\ cache[j].po = OldCache[k].po

\* A call of slot 1 is under way or has just returned.
InCall == pc[1] # "idle"

\* C11: in every reachable state no two distinct stored items of the same
\* status have the same priority_order.
C11_StrictOrderInBuckets ==
    \A i \in Live(store), j \in Live(store) :
        (i # j /\ store[i].status = store[j].status) => store[i].po # store[j].po

\* C12: in every reachable state a stored item's completed_at is non-null
\* exactly when its status is done.
C12_CompletedAtIffDone ==
    \A i \in Live(store) : (store[i].cat # 0) <=> (store[i].status = DONE)

\* C13: a completed_at that was non-null when a call started has the same
\* value in every state of the call and after it: it is neither re-stamped
\* nor reset to null.
C13_CompletedAtWriteOnce ==
    InCall => \A i \in Live(Old) : Old[i].cat # 0 => store[i].cat = Old[i].cat

\* The cache holds each stored item that is not done once, with its stored
\* status and priority_order, and nothing else.
CacheIsStore ==
    /\ CacheIds(cache) = {i \in Live(store) : store[i].status # DONE}
    /\ Len(cache) = Cardinality(CacheIds(cache))
    /\ \A k \in DOMAIN cache :
            /\ cache[k].status = store[cache[k].id].status
            /\ cache[k].po = store[cache[k].id].po

\* C14: a changeStatus, reorder or update call whose persistence call returned
\* an error has reloaded by the time it returns, and when that reload
\* succeeded the cache holds exactly the stored items the hook's filter lets
\* through, with their stored status and priority_order.
C14_ErrorReloadsFromStore ==
    (Returned /\ Call.op \in {"changeStatus", "reorder", "update"} /\ Call.err)
    => /\ Call.reload # "none"
       /\ Call.reload = "ok" => CacheIsStore

\* C14 witness: a reorder failed part-way, the reload succeeded and brought
\* back more items than the reorder had left in the cache.
C14_Witness ==
    /\ Returned /\ Call.op = "reorder" /\ Call.err /\ Call.reload = "ok"
    /\ store # Old
    /\ Len(cache) > Cardinality(Call.bucket)

\* The persistence call of the hook call is pending.
StatusPending ==
    /\ Call.op = "changeStatus"
    /\ pc[1] \in {"us_invalid", "sc_find", "sc_top", "sc_demote", "sc_promote", "st_write"}
ReorderPending == Call.op = "reorder" /\ pc[1] = "ro_write"
UpdatePending == Call.op = "update" /\ pc[1] = "up_write"
AddPending == Call.op = "add" /\ pc[1] \in {"cr_max", "cr_insert"}

\* The cache shows the change the call asks for.
ShowsStatus ==
    /\ Len(cache) = Len(OldCache)
    /\ \A k \in DOMAIN cache : cache[k].id = Call.id => cache[k].status = Call.st
ShowsOrder ==
    /\ Len(cache) = Len(Call.ups)
    /\ \A k \in DOMAIN cache : cache[k].id = Call.ups[k].id /\ cache[k].po = k
ShowsFields ==
    /\ Len(cache) = Len(OldCache)
    /\ \A k \in DOMAIN cache : cache[k].id = Call.id => cache[k].zone = Call.draft.zone
ShowsNewItem == Len(cache) = Len(OldCache) + 1

\* C15: while the persistence call of changeStatus, reorder, update or add is
\* pending, the cache already shows the change of the call.
C15_OptimisticBeforeResolve ==
    /\ StatusPending => ShowsStatus
    /\ ReorderPending => ShowsOrder
    /\ UpdatePending => ShowsFields
    /\ AddPending => ShowsNewItem

\* C15 amended: while the persistence call of changeStatus, reorder or update
\* is pending the cache already shows the change; while createItem is pending
\* the cache is as it was before add was called, and the new item is in the
\* cache once add has returned without an error.
C15_OptimisticExceptAdd ==
    /\ StatusPending => ShowsStatus
    /\ ReorderPending => ShowsOrder
    /\ UpdatePending => ShowsFields
    /\ AddPending => cache = OldCache
    /\ (Returned /\ Call.op = "add") => (ShowsNewItem <=> ~Call.err)

\* C15 witness: an update is pending, the cache shows the new zone of an item
\* and the store still holds the old one.
C15_Witness ==
    /\ UpdatePending /\ ShowsFields
    /\ cache # OldCache /\ store = Old
    /\ Old[Call.id].ex /\ Old[Call.id].zone # Call.draft.zone

\* C16: once the response of a reload whose snapshot was read before a
\* changeStatus call on a cached item X was issued has been applied, and while
\* that changeStatus call is still waiting for the store, the cache shows X
\* with the status changeStatus gave it: the older response did not overwrite
\* the newer request's state of X.
C16_StaleResponseNotApplied ==
    \A p \in Procs, q \in Procs :
        (/\ p # q
         /\ pc[p] = "done" /\ loc[p].reload = "ok"
         /\ loc[q].op = "changeStatus"
         /\ pc[q] \in {"us_invalid", "sc_find", "sc_top", "sc_demote",
                        "sc_promote", "st_write"}
         /\ loc[q].issued > loc[p].readAt
         /\ loc[q].id \in CacheIds(pre[q].cache))
        => \A k \in DOMAIN cache :
                cache[k].id = loc[q].id => cache[k].status = loc[q].st

\* A changeStatus call whose target status is none of the four.
InvalidCall == Call.op = "changeStatus" /\ Call.st \notin STATUSES

\* C17: updateItemStatus with a target status that is none of the four returns
\* an error and sends the store no request of its own: the call is never at
\* one of the status requests and every stored item is as before the call.
C17_InvalidStatusRejected ==
    InvalidCall
    => /\ pc[1] \in {"us_invalid", "load_fetch", "load_apply", "done"}
       /\ pc[1] # "us_invalid" => Call.err
       /\ Call.prevId = NoId /\ Call.demotedRow = NoId /\ Call.promotedRow = NoId
       /\ store = Old

\* C17 witness: such a call on a stored, cached item has returned its error.
C17_Witness ==
    /\ Returned /\ InvalidCall /\ Call.err
    /\ Old[Call.id].ex /\ Call.id \in CacheIds(OldCache)

\* C18: during and after a changeStatus call whose target status is none of
\* the four, every cached item has one of the four statuses, and until the
\* reload replaces the cache every cached item has the status and the
\* priority_order it had before the call.
C18_InvalidStatusNeverCached ==
    InvalidCall
    => /\ \A k \in DOMAIN cache : cache[k].status \in STATUSES
       /\ pc[1] \in {"us_invalid", "load_fetch"}
            => /\ Len(cache) = Len(OldCache)
               /\ \A k \in DOMAIN cache :
                    /\ cache[k].status = OldCache[k].status
                    /\ cache[k].po = OldCache[k].po

\* C19: a status change to one of the four statuses whose item id has no
\* stored row returns an error and leaves every stored item as it was.
C19_UnknownIdChangesNothing ==
    (Call.op = "changeStatus" /\ Call.st \in STATUSES /\ ~Old[Call.id].ex)
    => /\ store = Old
       /\ Returned => Call.err

\* C20: createItem with a missing title, or a context that is missing or not
\* one of the four, returns an error without a store request: the call is
\* never at the lookup or the insert, no item is stored or cached for it and
\* the stored items are as before the call.
C20_InvalidDraftRejected ==
    (Call.op = "add"
        /\ (Call.draft.title = "" \/ Call.draft.context \notin CONTEXTS))
    => /\ pc[1] \notin {"cr_max", "cr_insert"}
       /\ Call.err /\ Call.id = NoId
       /\ store = Old /\ cache = OldCache

\* C20 witness: a draft with a title and an unknown context was rejected while
\* the store holds items.
C20_Witness ==
    /\ Returned /\ Call.op = "add" /\ Call.err
    /\ Call.draft.title # "" /\ Call.draft.context \notin CONTEXTS \cup {""}
    /\ Live(Old) # {} /\ store = Old

\* C21: an item add() created without an error is stored waiting with
\* priority_order 1 + the largest priority_order stored before the call (done
\* items included; 1 when nothing was stored), above every other stored item.
C21_CreatedLastInWaiting ==
    (Returned /\ Call.op = "add" /\ ~Call.err)
    => /\ store[Call.id].ex /\ ~Old[Call.id].ex
       /\ store[Call.id].status = WAITING
       /\ store[Call.id].po =
            IF Live(Old) = {} THEN 1 ELSE Max({Old[i].po : i \in Live(Old)}) + 1
       /\ \A i \in Live(store) \ {Call.id} : store[i].po < store[Call.id].po

\* C25: when a changeStatus, reorder or update call whose persistence call
\* returned an error has completed and its reload succeeded, the hook's error
\* still holds the message of the failed operation.
C25_FailureStaysReported ==
    (/\ Returned /\ Call.op \in {"changeStatus", "reorder", "update"}
     /\ Call.err /\ Call.reload = "ok")
    => error # "none"

\* C27: the previousCurrentId a set-current call returns is the id of the item
\* whose demotion write succeeded in the call, and null when there was none
\* (no current item, target already current, lookup or demotion write
\* failed); an error comes with a non-null previousCurrentId exactly when the
\* demotion was applied and the promotion was not.
C27_PreviousCurrentIdExact ==
    (Returned /\ SetCurrentCall)
    => /\ Call.prevId = Call.demotedRow
       /\ Call.demotedRow # NoId
            => /\ Old[Call.demotedRow].status = CURRENT
               /\ Call.demotedRow # Call.id
               /\ store[Call.demotedRow].status # CURRENT
       /\ (NumCurrent(Old) = 0 \/ Call.demoteFailed
            \/ (Old[Call.id].ex /\ Old[Call.id].status = CURRENT))
            => Call.prevId = NoId
       /\ (Call.err /\ Call.prevId # NoId)
            <=> (Call.demotedRow # NoId /\ Call.promotedRow = NoId)

\* C27 witness: the demotion was applied, the promotion failed, and the call
\* returned the error with the demoted item's id.
C27_Witness ==
    /\ Returned /\ SetCurrentCall /\ Call.err
    /\ Call.prevId # NoId /\ Call.prevId = Call.demotedRow
    /\ store[Call.prevId].status = IN_PROGRESS /\ Old[Call.id].ex

\* The cache is the one the call's optimistic update made: no reload of the
\* call has replaced it.
OptimisticShown ==
    /\ Call.op = "changeStatus"
    /\ Call.reload = "none" /\ pc[1] \notin {"idle", "load_apply"}

\* C29: a transition to waiting, in_progress or done writes only the target
\* row, and of it only status (and completed_at for done): every other stored
\* item, and the target's priority_order, zone_id and context, are as before
\* the call; the same holds of the cache after the optimistic update.
C29_PlainTransitionFrame ==
    (Call.op = "changeStatus" /\ Call.st \in {WAITING, IN_PROGRESS, DONE})
    => /\ \A i \in Ids \ {Call.id} : store[i] = Old[i]
       /\ store[Call.id].ex = Old[Call.id].ex
       /\ store[Call.id].po = Old[Call.id].po
       /\ store[Call.id].zone = Old[Call.id].zone
       /\ store[Call.id].ctx = Old[Call.id].ctx
       /\ store[Call.id].status \in {Old[Call.id].status, Call.st}
       /\ Call.st # DONE => store[Call.id].cat = Old[Call.id].cat
       /\ OptimisticShown
            => /\ Len(cache) = Len(OldCache)
               /\ \A k \in DOMAIN cache :
                    IF cache[k].id # Call.id THEN cache[k] = OldCache[k]
                    ELSE /\ cache[k] = [OldCache[k] EXCEPT !.status = cache[k].status,
                                                           !.cat = cache[k].cat]
                         /\ cache[k].status = Call.st
                         /\ Call.st # DONE => cache[k].cat = OldCache[k].cat

\* C29 witness: an item that was not done was marked done, in the store and
\* in a cache that holds other items as well.
C29_Witness ==
    /\ Returned /\ OptimisticShown /\ Call.st = DONE /\ ~Call.err
    /\ Old[Call.id].status # DONE /\ store[Call.id].status = DONE
    /\ store[Call.id].cat # Old[Call.id].cat
    /\ Call.id \in CacheIds(OldCache) /\ Len(OldCache) >= 2

\* C30: a transition to current changes at most two stored rows, the target
\* and the item that was current: the target's priority_order is as before,
\* only the demoted item's priority_order changes and no third row changes;
\* the same holds of the cache after the optimistic update.
C30_SetCurrentFrame ==
    SetCurrentCall
    => /\ \A i \in Ids :
            store[i] # Old[i] => i = Call.id \/ (Old[i].ex /\ Old[i].status = CURRENT)
       /\ Cardinality({i \in Ids : store[i] # Old[i]}) <= 2
       /\ store[Call.id].po = Old[Call.id].po
       /\ \A i \in Ids : store[i].po # Old[i].po => i = Call.demotedRow
       /\ OptimisticShown
            => /\ Len(cache) = Len(OldCache)
               /\ Cardinality({k \in DOMAIN cache : cache[k] # OldCache[k]}) <= 2
               /\ \A k \in DOMAIN cache :
                    /\ cache[k] # OldCache[k]
                        => cache[k].id = Call.id \/ OldCache[k].status = CURRENT
                    /\ cache[k].id = Call.id => cache[k].po = OldCache[k].po
                    /\ cache[k].po # OldCache[k].po
                        => OldCache[k].status = CURRENT /\ cache[k].status = IN_PROGRESS

\* C30 witness: a promotion with a demotion succeeded while two other items
\* were in_progress; two rows and two cached items changed.
C30_Witness ==
    /\ Returned /\ SetCurrentCall /\ OptimisticShown /\ ~Call.err
    /\ Call.demotedRow # NoId /\ Call.promotedRow = Call.id
    /\ Cardinality(WithStatus(Old, IN_PROGRESS) \ {Call.id}) >= 1
    /\ Cardinality({i \in Ids : store[i] # Old[i]}) = 2
    /\ Cardinality({k \in DOMAIN cache : cache[k] # OldCache[k]}) = 2

\* C24: reorderItems returns no error exactly when none of its updates
\* failed; otherwise the error it returns is that of the first failed update
\* in input order, and nothing is rolled back: every update that succeeded is
\* in the store and every failed one left its row as it was.
C24_ReorderReportsFirstFailure ==
    (Call.op = "reorder" /\ pc[1] # "ro_write")
    => /\ Call.err <=> Call.failed # {}
       /\ Call.err => Call.errOf \in Call.failed
                       /\ \A k \in Call.failed : Call.errOf <= k
       /\ ~Call.err => Call.errOf = 0
       /\ \A k \in DOMAIN Call.ups :
            IF k \in Call.failed
            THEN store[Call.ups[k].id].po = Old[Call.ups[k].id].po
            ELSE store[Call.ups[k].id].po = Call.ups[k].po

\* C24 witness: of three updates the second failed and the third, which
\* changes its row, was applied.
C24_Witness ==
    /\ Returned /\ Call.op = "reorder" /\ Call.err
    /\ Len(Call.ups) = 3 /\ Call.failed = {2}
    /\ store[Call.ups[3].id].po # Old[Call.ups[3].id].po

\* C22: updateItem(id, patch) leaves status, priority_order, context and
\* completed_at of every stored item as they were, whatever keys the patch
\* holds, stores and deletes no item and touches no other item; a patch with
\* none of title, notes, zone_id, due_date returns an error and the store is
\* as before the call.
C22_UpdateItemFrame ==
    (Call.op = "update")
    => /\ \A i \in Ids :
            /\ store[i].ex = Old[i].ex
            /\ store[i].status = Old[i].status /\ store[i].po = Old[i].po
            /\ store[i].ctx = Old[i].ctx /\ store[i].cat = Old[i].cat
            /\ i # Call.id => store[i] = Old[i]
       /\ (Call.draft.keys \cap {"title", "notes", "zone_id", "due_date"} = {})
            => /\ store = Old
               /\ pc[1] # "up_write" => Call.err

\* C22 witness: a patch with zone_id next to status, priority_order, context
\* and completed_at was written: the item's zone_id changed, and the patch's
\* other values differ from the stored ones.
C22_Witness ==
    /\ Returned /\ Call.op = "update" /\ ~Call.err
    /\ {"zone_id", "status", "context"} \subseteq Call.draft.keys
    /\ store[Call.id].zone # Old[Call.id].zone
    /\ store[Call.id].status # Call.draft.status
    /\ store[Call.id].ctx # Call.draft.ctx

\* C22 witness of the rejection: a patch holding only context was refused.
C22_WitnessRejected ==
    /\ Returned /\ Call.op = "update" /\ Call.err
    /\ Call.draft.keys = {"context"} /\ store[Call.id].ex

\* C23: an item's context never changes: during a call every stored item has
\* the context it had before the call, and once the call has settled every
\* cached item shows the context its stored row has.
C23_ContextImmutable ==
    /\ InCall => \A i \in Live(Old) : store[i].ctx = Old[i].ctx
    /\ pc[1] \in {"idle", "done"}
        => \A k \in DOMAIN cache :
                store[cache[k].id].ex => cache[k].ctx = store[cache[k].id].ctx

\* C26: deleteZone(z) stores and deletes no item and changes nothing of an
\* item but the zone_id of those that referenced z; once it has returned
\* success no stored item references z; whenever the call has deleted the
\* zone row the clearing was applied and no stored item references z; when the clearing
\* failed the call returns the error and the zone row is still there.
C26_DeleteZoneKeepsItems ==
    (Call.op = "deleteZone")
    => /\ \A i \in Ids :
            \/ store[i] = Old[i]
            \/ /\ Old[i].ex /\ Old[i].zone = Call.zoneId
               /\ store[i] = [Old[i] EXCEPT !.zone = NoZone]
       /\ (Returned /\ ~Call.err)
            => \A i \in Live(store) : store[i].zone # Call.zoneId
       /\ Call.zoneId \in pre[1].zones \ zones
            => /\ Call.cleared
               /\ \A i \in Live(store) : store[i].zone # Call.zoneId
       /\ (pc[1] # "dz_clear" /\ ~Call.cleared)
            => Call.err /\ Returned /\ zones = pre[1].zones /\ store = Old

\* C26 witness: a zone that an item referenced was deleted: the item is still
\* stored, without a zone.
C26_Witness ==
    /\ Returned /\ Call.op = "deleteZone" /\ ~Call.err
    /\ Call.zoneId \in pre[1].zones /\ Call.zoneId \notin zones
    /\ \E i \in Ids : /\ Old[i].ex /\ Old[i].zone = Call.zoneId
                       /\ store[i].ex /\ store[i].zone = NoZone

\* C26 witness of the failed clearing: the items still reference the zone and
\* the zone row is kept.
C26_WitnessClearFailed ==
    /\ Returned /\ Call.op = "deleteZone" /\ Call.err /\ ~Call.cleared
    /\ Call.zoneId \in zones
    /\ \E i \in Live(store) : store[i].zone = Call.zoneId

\* C28: a reorder whose target item is not among the remaining items of the
\* bucket (index -1) puts the moved item first: the first of the updates sent
\* is the moved item, with priority_order 1.
C28_StaleTargetInsertsFirst ==
    (Call.op = "reorder" /\ Call.target \notin Call.bucket \ {Call.id})
    => Call.ups[1] = [id |-> Call.id, po |-> 1]

\* C31: when the lookup of the top in_progress priority_order (setItemCurrent)
\* or of the largest priority_order (createItem) returned an error, the call
\* writes nothing to the store and returns an error.
C31_LookupErrorNotSwallowed ==
    (Call.op \in {"changeStatus", "add"} /\ Call.lookupFailed)
    => /\ store = Old
       /\ Returned => Call.err

\* C32: in every reachable state at most one cached item has status current.
C32_CacheShowsOneCurrent == Cardinality(CacheWithStatus(cache, CURRENT)) <= 1

\* C33: after a changeStatus(-> current) all of whose store requests succeeded,
\* started from a cache equal to the store's non-done items, every cached item
\* has the status and the priority_order of its stored row.
C33_OptimisticEqualsStored ==
    (Returned /\ SetCurrentCall /\ Call.clean /\ ~Call.err
        /\ OldCache \in FetchItems(Old))
    => \A k \in DOMAIN cache :
            /\ cache[k].status = store[cache[k].id].status
            /\ cache[k].po = store[cache[k].id].po

\* The store holds the two current items of a race.
C34_RaceLeavesTwoCurrent == store \in RacedStores

\* C34: a set-current call on a stored item, issued while the store holds two
\* or more current items and with every store request answered, returns
\* without an error and leaves that item as the only current item.
C34_SetCurrentRestoresOneCurrent ==
    (Returned /\ SetCurrentCall /\ Call.clean /\ Call.reload # "failed"
        /\ NumCurrent(Old) >= 2 /\ Old[Call.id].ex)
    => /\ ~Call.err
       /\ WithStatus(store, CURRENT) = {Call.id}

\* The ids of the new order a reorder call sends, in order.
NewOrderIds == [k \in DOMAIN Call.ups |-> Call.ups[k].id]

\* C35: a drag of item X onto another item Y of the same board gives a new
\* order in which X comes immediately before Y, the items other than X keep
\* their order, and the new order holds exactly the items of the board as
\* shown, each once.
C35_DraggedPrecedesTarget ==
    (Call.op = "reorder")
    => LET new == NewOrderIds
           old == Call.board
           NotX(i) == i # Call.id
       IN  /\ \E k \in DOMAIN new :
                /\ new[k] = Call.id
                /\ k + 1 \in DOMAIN new /\ new[k + 1] = Call.target
           /\ SelectSeq(new, NotX) = SelectSeq(old, NotX)
           /\ Len(new) = Len(old)
           /\ {new[k] : k \in DOMAIN new} = {old[k] : k \in DOMAIN old}
           /\ Cardinality({new[k] : k \in DOMAIN new}) = Len(new)

\* C35 witness: on a board of three items the last one was dragged onto the
\* first one and is now first, the other two after it in their old order.
C35_Witness ==
    /\ Returned /\ Call.op = "reorder" /\ Len(Call.board) = 3
    /\ Call.board[3] = Call.id /\ Call.board[1] = Call.target
    /\ NewOrderIds = <<Call.board[3], Call.board[1], Call.board[2]>>

====
